---- MODULE Spec2Model ----
(***************************************************************************)
(* ProjectRepositoryStorageMoveService (project_repository_storage_move.go) *)
(* Six methods, each: format a path, client.NewRequest, client.Do into a   *)
(* fresh target, return (result, response, error).                         *)
(* Strings are sequences of one-character strings so that formatting and   *)
(* parsing are computed, not assumed.                                      *)
(***************************************************************************)
EXTENDS Integers, Sequences, FiniteSets

VARIABLES pc, args, nrCall, req, doLog, heap, decoded, resp, err, ret, client

vars == <<pc, args, nrCall, req, doLog, heap, decoded, resp, err, ret, client>>

(* ------------------------------ bounds -------------------------------- *)
NumCalls == 2
MaxId == 11
MaxOptions == 2
MaxMoves == 2
MaxPage == 1

Calls == 1..NumCalls
Ids == (0 - MaxId)..MaxId
SomeIds == {0 - MaxId, 0, MaxId}

(* ------------------------------ strings ------------------------------- *)
Digits == <<"0", "1", "2", "3", "4", "5", "6", "7", "8", "9">>

StrProjects == <<"p", "r", "o", "j", "e", "c", "t", "s">>

StrRepositoryStorageMoves ==
    <<"r", "e", "p", "o", "s", "i", "t", "o", "r", "y", "_",
      "s", "t", "o", "r", "a", "g", "e", "_", "m", "o", "v", "e", "s">>

StrProjectRepositoryStorageMoves ==
    <<"p", "r", "o", "j", "e", "c", "t", "_">> \o StrRepositoryStorageMoves

Slash == <<"/">>

MethodGet == "GET"

MethodPost == "POST"

(* fmt's %d verb: optional minus sign, then base-10 digits, no padding *)
RECURSIVE FormatUint(_)
FormatUint(n) ==
    IF n < 10 THEN <<Digits[n + 1]>>
    ELSE FormatUint(n \div 10) \o <<Digits[(n % 10) + 1]>>

FormatIntNoSign(n) == IF n < 0 THEN FormatUint(0 - n) ELSE FormatUint(n)

FormatInt(n) == IF n < 0 THEN <<"-">> \o FormatUint(0 - n) ELSE FormatUint(n)

(* ------------------------------ values -------------------------------- *)
NoErr == [kind |-> "nil", status |-> 0]

ErrInvalidRequest == [kind |-> "ErrInvalidRequest", status |-> 0]

ErrModifier == [kind |-> "ErrModifier", status |-> 0]

ErrTransport == [kind |-> "ErrTransport", status |-> 0]

ErrCancelled == [kind |-> "ErrCancelled", status |-> 0]

ErrDecode == [kind |-> "ErrDecode", status |-> 0]

ErrAPIStatus(code) == [kind |-> "ErrAPIStatus", status |-> code]

NilResp == [present |-> FALSE, status |-> 0]

Response(code) == [present |-> TRUE, status |-> code]

(* Go values of the result position: nil, a slice, a pointer to a target *)
NilValue == [kind |-> "nil", items |-> <<>>, ref |-> 0]

SliceValue(items) == [kind |-> "slice", items |-> items, ref |-> 0]

PtrValue(t) == [kind |-> "ptr", items |-> <<>>, ref |-> t]

StructValue(m) == [kind |-> "struct", items |-> <<m>>, ref |-> 0]

(* ProjectRepositoryStorageMove, reduced to the fields ID and State *)
ZeroMove == [ID |-> 0, State |-> ""]

Moves == {[ID |-> 1, State |-> "scheduled"], [ID |-> 2, State |-> "finished"]}

RECURSIVE SeqsUpTo(_, _)
SeqsUpTo(S, n) ==
    IF n = 0 THEN {<<>>}
    ELSE LET shorter == SeqsUpTo(S, n - 1)
         IN  shorter \cup {Append(s, x) : s \in shorter, x \in S}

(* what a decoder can leave in a []*ProjectRepositoryStorageMove target *)
SliceValues(n) == {NilValue} \cup {SliceValue(s) : s \in SeqsUpTo(Moves, n)}

(* what a decoder can leave in a *ProjectRepositoryStorageMove target *)
StructValues == {StructValue(m) : m \in Moves \cup {ZeroMove}}

NoPayload == [kind |-> "nil", Page |-> 0, PerPage |-> 0]

OptsPayload(opts) == [kind |-> "opts", Page |-> opts.Page, PerPage |-> opts.PerPage]

ListOptionsValues == [Page : 0..MaxPage, PerPage : 0..MaxPage]

SomeListOptions == {[Page |-> 0, PerPage |-> 0], [Page |-> MaxPage, PerPage |-> MaxPage]}

Modifiers == {"WithContext", "WithHeader", "WithInvalidHeader"}

NoReq == [built |-> FALSE, method |-> "", path |-> <<>>, query |-> {}, applied |-> <<>>]

NoCall ==
    [called |-> FALSE, method |-> "", path |-> <<>>, payload |-> NoPayload,
     options |-> <<>>, err |-> NoErr]

NoArgs == [op |-> "", project |-> 0, id |-> 0, opts |-> NoPayload, options |-> <<>>]

ClientConfig == [baseURL |-> "https://gitlab.example/api/v4/", token |-> "secret"]

SliceOps == {"RetrieveAllStorageMoves", "RetrieveAllStorageMovesForProject",
             "ScheduleAllStorageMoves", "ScheduleStorageMoveForProject"}

GetOps == {"GetStorageMove", "GetStorageMoveForProject"}

ScopedOps == {"RetrieveAllStorageMovesForProject", "GetStorageMoveForProject",
              "ScheduleStorageMoveForProject"}

(* ----------------------- collaborators (client) ------------------------ *)
(* GET payloads become query parameters: the non-zero fields only *)
Query(payload) ==
    IF payload.kind = "nil" THEN {}
    ELSE {kv \in {<<"page", payload.Page>>, <<"per_page", payload.PerPage>>} : kv[2] # 0}

(* modifiers run in order on the request under construction; the first one
   that fails ends the build and no request comes back *)
RECURSIVE ApplyModifiers(_, _)
ApplyModifiers(r, options) ==
    IF options = <<>> THEN [req |-> r, err |-> NoErr]
    ELSE IF Head(options) = "WithInvalidHeader" THEN [req |-> NoReq, err |-> ErrModifier]
    ELSE ApplyModifiers([r EXCEPT !.applied = Append(@, Head(options))], Tail(options))

NewRequest(method, path, payload, options, baseOK) ==
    IF ~baseOK THEN [req |-> NoReq, err |-> ErrInvalidRequest]
    ELSE ApplyModifiers([built |-> TRUE, method |-> method, path |-> path,
                         query |-> Query(payload), applied |-> <<>>], options)

(* what one round trip can do: no response at all, a response with an error
   status, a response whose body fails to decode (the target may be partly
   written), a response decoded into the target *)
TransportFailures ==
    {[resp |-> NilResp, err |-> e, write |-> FALSE, val |-> NilValue] :
        e \in {ErrTransport, ErrCancelled}}

StatusFailures ==
    {[resp |-> Response(404), err |-> ErrAPIStatus(404), write |-> FALSE, val |-> NilValue]}

DoOutcomes(failures, full, partial) ==
    failures \cup
    {[resp |-> Response(200), err |-> ErrDecode, write |-> TRUE, val |-> v] : v \in partial} \cup
    {[resp |-> Response(200), err |-> NoErr, write |-> TRUE, val |-> v] : v \in full}

(* ------------------------- the methods' pieces ------------------------- *)
ProjectMovesPath(project) ==
    StrProjects \o Slash \o FormatInt(project) \o Slash \o StrRepositoryStorageMoves

MovePath(repositoryStorage) ==
    StrProjectRepositoryStorageMoves \o Slash \o FormatInt(repositoryStorage)

ProjectMovePathSwapped(project, repositoryStorage) ==
    StrProjects \o Slash \o FormatInt(repositoryStorage) \o Slash \o
    StrRepositoryStorageMoves \o Slash \o FormatInt(project)

ProjectMovePath(project, repositoryStorage) ==
    StrProjects \o Slash \o FormatInt(project) \o Slash \o
    StrRepositoryStorageMoves \o Slash \o FormatInt(repositoryStorage)

(* the variadic options go to NewRequest as received *)
PassOptionsReversed(options) == [i \in 1..Len(options) |-> options[Len(options) + 1 - i]]

PassOptions(options) == options

(* if err != nil after NewRequest *)
BuildFailedNever(e) == FALSE

BuildFailed(e) == e # NoErr

(* return nil, nil, err *)
BuildErrorReturn(e) == [result |-> NilValue, resp |-> NilResp, err |-> e]

(* each call frame owns its target: var psms / new(ProjectRepositoryStorageMove) *)
TargetOfShared(c) == 1

TargetOf(c) == c

NewTarget(op) == IF op \in GetOps THEN StructValue(ZeroMove) ELSE NilValue

(* Do is called once; its error is returned, not acted on *)
RetryOnErrorTransient(e) == e = ErrTransport

RetryOnError(e) == FALSE

(* return nil, resp, err *)
DoErrorReturnWrapped(psms, r, e) ==
    [result |-> NilValue, resp |-> r, err |-> [kind |-> "wrapped", status |-> e.status]]

DoErrorReturnTarget(psms, r, e) == [result |-> psms, resp |-> r, err |-> e]

DoErrorReturnNoResp(psms, r, e) == [result |-> NilValue, resp |-> NilResp, err |-> e]

DoErrorReturn(psms, r, e) == [result |-> NilValue, resp |-> r, err |-> e]

(* return psms, resp, err *)
SuccessReturnEmpty(psms, r, e) == [result |-> NilValue, resp |-> r, err |-> e]

SuccessReturn(psms, r, e) == [result |-> psms, resp |-> r, err |-> e]

(* the value of the local psms / psm when the method returns *)
Local(op, c, h) == IF op \in GetOps THEN PtrValue(TargetOf(c)) ELSE h[TargetOf(c)]

NoReturn == [result |-> NilValue, resp |-> NilResp, err |-> NoErr]

NoOutcome == [resp |-> NilResp, err |-> NoErr, write |-> FALSE, val |-> NilValue]

(* ------------------------------- state -------------------------------- *)
Init ==
    /\ pc = [c \in Calls |-> "idle"]
    /\ args = [c \in Calls |-> NoArgs]
    /\ nrCall = [c \in Calls |-> NoCall]
    /\ req = [c \in Calls |-> NoReq]
    /\ doLog = [c \in Calls |-> <<>>]
    /\ heap = [c \in Calls |-> NilValue]
    /\ decoded = [c \in Calls |-> NoOutcome]
    /\ resp = [c \in Calls |-> NilResp]
    /\ err = [c \in Calls |-> NoErr]
    /\ ret = [c \in Calls |-> NoReturn]
    /\ client = ClientConfig

(* method entry up to the call of Do (or the early return) *)
Invoke(c, a, method, path, payload, baseOK) ==
    /\ pc[c] = "idle"
    /\ LET passed == PassOptions(a.options)
           nr == NewRequest(method, path, payload, passed, baseOK)
       IN  /\ args' = [args EXCEPT ![c] = a]
           /\ nrCall' = [nrCall EXCEPT ![c] =
                  [called |-> TRUE, method |-> method, path |-> path,
                   payload |-> payload, options |-> passed, err |-> nr.err]]
           /\ req' = [req EXCEPT ![c] = nr.req]
           /\ err' = [err EXCEPT ![c] = nr.err]
           /\ IF BuildFailed(nr.err)
              THEN /\ pc' = [pc EXCEPT ![c] = "returned"]
                   /\ ret' = [ret EXCEPT ![c] = BuildErrorReturn(nr.err)]
                   /\ UNCHANGED <<heap, doLog>>
              ELSE /\ pc' = [pc EXCEPT ![c] = "inflight"]
                   /\ heap' = [heap EXCEPT ![TargetOf(c)] = NewTarget(a.op)]
                   /\ doLog' = [doLog EXCEPT ![c] =
                          Append(@, [req |-> nr.req, target |-> TargetOf(c)])]
                   /\ UNCHANGED ret
    /\ UNCHANGED <<decoded, resp, client>>

RetrieveAllStorageMoves(c, D) ==
    \E opts \in D.opts, options \in D.options, baseOK \in D.base :
        Invoke(c, [op |-> "RetrieveAllStorageMoves", project |-> 0, id |-> 0,
                   opts |-> OptsPayload(opts), options |-> options],
               MethodGet, StrProjectRepositoryStorageMoves, OptsPayload(opts), baseOK)

RetrieveAllStorageMovesForProject(c, D) ==
    \E project \in D.ids, opts \in D.opts, options \in D.options, baseOK \in D.base :
        Invoke(c, [op |-> "RetrieveAllStorageMovesForProject", project |-> project,
                   id |-> 0, opts |-> OptsPayload(opts), options |-> options],
               MethodGet, ProjectMovesPath(project), OptsPayload(opts), baseOK)

GetStorageMove(c, D) ==
    \E repositoryStorage \in D.ids, options \in D.options, baseOK \in D.base :
        Invoke(c, [op |-> "GetStorageMove", project |-> 0, id |-> repositoryStorage,
                   opts |-> NoPayload, options |-> options],
               MethodGet, MovePath(repositoryStorage), NoPayload, baseOK)

GetStorageMoveForProject(c, D) ==
    \E project \in D.ids, repositoryStorage \in D.ids, options \in D.options,
       baseOK \in D.base :
        Invoke(c, [op |-> "GetStorageMoveForProject", project |-> project,
                   id |-> repositoryStorage, opts |-> NoPayload, options |-> options],
               MethodGet, ProjectMovePath(project, repositoryStorage), NoPayload, baseOK)

ScheduleAllStorageMoves(c, D) ==
    \E options \in D.options, baseOK \in D.base :
        Invoke(c, [op |-> "ScheduleAllStorageMoves", project |-> 0, id |-> 0,
                   opts |-> NoPayload, options |-> options],
               MethodPost, StrProjectRepositoryStorageMoves, NoPayload, baseOK)

ScheduleStorageMoveForProject(c, D) ==
    \E project \in D.ids, options \in D.options, baseOK \in D.base :
        Invoke(c, [op |-> "ScheduleStorageMoveForProject", project |-> project,
                   id |-> 0, opts |-> NoPayload, options |-> options],
               MethodPost, ProjectMovesPath(project), NoPayload, baseOK)

(* client.Do returns: the target may have been written, resp and err are set *)
DoComplete(c, D) ==
    /\ pc[c] = "inflight"
    /\ \E out \in IF args[c].op \in GetOps
                  THEN DoOutcomes(D.failures, D.structs, D.structsPartial)
                  ELSE DoOutcomes(D.failures, D.slices, D.slicesPartial) :
          /\ heap' = IF out.write THEN [heap EXCEPT ![TargetOf(c)] = out.val] ELSE heap
          /\ decoded' = [decoded EXCEPT ![c] = out]
          /\ resp' = [resp EXCEPT ![c] = out.resp]
          /\ err' = [err EXCEPT ![c] = out.err]
          /\ IF RetryOnError(out.err)
             THEN /\ doLog' = [doLog EXCEPT ![c] =
                         Append(@, [req |-> req[c], target |-> TargetOf(c)])]
                  /\ pc' = pc
             ELSE /\ pc' = [pc EXCEPT ![c] = "decoded"]
                  /\ UNCHANGED doLog
    /\ UNCHANGED <<args, nrCall, req, ret, client>>

(* the method's two return statements after Do *)
Return(c) ==
    /\ pc[c] = "decoded"
    /\ ret' = [ret EXCEPT ![c] =
           IF err[c] # NoErr
           THEN DoErrorReturn(Local(args[c].op, c, heap), resp[c], err[c])
           ELSE SuccessReturn(Local(args[c].op, c, heap), resp[c], err[c])]
    /\ pc' = [pc EXCEPT ![c] = "returned"]
    /\ UNCHANGED <<args, nrCall, req, doLog, heap, decoded, resp, err, client>>

(* one goroutine; every modifier list, every round-trip outcome *)
SeqDomain ==
    [ids |-> SomeIds, opts |-> SomeListOptions,
     options |-> SeqsUpTo(Modifiers, MaxOptions), base |-> BOOLEAN,
     failures |-> TransportFailures \cup StatusFailures,
     slices |-> SliceValues(MaxMoves), slicesPartial |-> SliceValues(1),
     structs |-> StructValues, structsPartial |-> StructValues]

(* one goroutine; every id and every list option in range *)
PathDomain ==
    [ids |-> Ids, opts |-> ListOptionsValues,
     options |-> {<<>>}, base |-> BOOLEAN,
     failures |-> StatusFailures,
     slices |-> {SliceValue(<<>>)}, slicesPartial |-> {},
     structs |-> {StructValue(ZeroMove)}, structsPartial |-> {}]

(* NumCalls goroutines on one service value, a few inputs each *)
ConcDomain ==
    [ids |-> {MaxId}, opts |-> {[Page |-> MaxPage, PerPage |-> 0]},
     options |-> {<<>>, <<"WithInvalidHeader">>}, base |-> {TRUE},
     failures |-> TransportFailures \cup StatusFailures,
     slices |-> {NilValue, SliceValue(<<CHOOSE m \in Moves : m.ID = 1>>)},
     slicesPartial |-> {SliceValue(<<>>)},
     structs |-> {StructValue(CHOOSE m \in Moves : m.ID = 2)},
     structsPartial |-> {StructValue(ZeroMove)}]

Step(c, D) ==
    \/ RetrieveAllStorageMoves(c, D)
    \/ RetrieveAllStorageMovesForProject(c, D)
    \/ GetStorageMove(c, D)
    \/ GetStorageMoveForProject(c, D)
    \/ ScheduleAllStorageMoves(c, D)
    \/ ScheduleStorageMoveForProject(c, D)
    \/ DoComplete(c, D)
    \/ Return(c)

Next == Step(1, SeqDomain)

Spec == Init /\ [][Next]_vars

NextConc == \E c \in Calls : Step(c, ConcDomain)

SpecConc == Init /\ [][NextConc]_vars

NextPath == Step(1, PathDomain)

SpecPath == Init /\ [][NextPath]_vars

(* ------------------------- reading a path back ------------------------- *)
SlashAt(s) == {i \in 1..Len(s) : s[i] = "/"}

Min(S) == CHOOSE x \in S : \A y \in S : x <= y

RECURSIVE SplitPath(_)
SplitPath(s) ==
    IF SlashAt(s) = {} THEN <<s>>
    ELSE LET i == Min(SlashAt(s))
         IN  <<SubSeq(s, 1, i - 1)>> \o SplitPath(SubSeq(s, i + 1, Len(s)))

IsDigit(ch) == \E d \in 1..10 : Digits[d] = ch

DigitValue(ch) == (CHOOSE d \in 1..10 : Digits[d] = ch) - 1

(* a decimal numeral: digits only, no leading zero, no sign *)
IsNumeral(s) ==
    /\ Len(s) >= 1
    /\ \A i \in 1..Len(s) : IsDigit(s[i])
    /\ (Len(s) > 1 => s[1] # "0")

(* a decimal integer: a numeral, or "-" and a numeral other than 0 *)
IsDecimal(s) ==
    \/ IsNumeral(s)
    \/ Len(s) >= 2 /\ s[1] = "-" /\ IsNumeral(Tail(s)) /\ Tail(s) # <<"0">>

RECURSIVE ParseUint(_)
ParseUint(s) ==
    IF s = <<>> THEN 0
    ELSE 10 * ParseUint(SubSeq(s, 1, Len(s) - 1)) + DigitValue(s[Len(s)])

ParseInt(s) == IF s[1] = "-" THEN 0 - ParseUint(Tail(s)) ELSE ParseUint(s)

IsIdSegment(seg, n) == IsDecimal(seg) /\ ParseInt(seg) = n

Started(c) == pc[c] # "idle"

Returned(c) == pc[c] = "returned"

Dispatched(c) == doLog[c] # <<>>

(* ------------------------------- claims -------------------------------- *)

(* C1: when NewRequest or Do returns an error, the method returns a nil
   result and exactly that error value. *)
C1_ErrorPropagatedUnchanged ==
    \A c \in Calls : Returned(c) =>
        /\ nrCall[c].err # NoErr =>
              ret[c].result = NilValue /\ ret[c].err = nrCall[c].err
        /\ (Dispatched(c) /\ decoded[c].err # NoErr) =>
              ret[c].result = NilValue /\ ret[c].err = decoded[c].err

(* a decode failure after the target was written: the result is still nil *)
C1_Witness ==
    \E c \in Calls :
        /\ Returned(c) /\ Dispatched(c)
        /\ decoded[c].err = ErrDecode
        /\ heap[TargetOf(c)].kind = "slice"
        /\ ret[c].result = NilValue
        /\ ret[c].err = ErrDecode

(* C2: after a failed build (builder or modifier error) the method returns
   (nil, nil, that error) and Do is never invoked for the call. *)
C2_NoDispatchAfterBuildFailure ==
    \A c \in Calls : (nrCall[c].called /\ nrCall[c].err # NoErr) =>
        /\ doLog[c] = <<>>
        /\ Returned(c)
        /\ ret[c] = [result |-> NilValue, resp |-> NilResp, err |-> nrCall[c].err]

(* the second of two modifiers fails *)
C2_Witness ==
    \E c \in Calls :
        /\ Returned(c)
        /\ args[c].options = <<"WithContext", "WithInvalidHeader">>
        /\ nrCall[c].err = ErrModifier
        /\ doLog[c] = <<>>

(* C3: a call invokes Do once if the request was built and not at all
   otherwise; a failed Do is not followed by another one. *)
C3_AtMostOneDispatch ==
    \A c \in Calls :
        /\ Len(doLog[c]) <= 1
        /\ Started(c) => (Len(doLog[c]) = 1 <=> nrCall[c].err = NoErr)
        /\ (Returned(c) /\ decoded[c].err # NoErr) => Len(doLog[c]) = 1

(* a transport failure came back and the call has returned *)
C3_Witness ==
    \E c \in Calls :
        /\ Returned(c)
        /\ decoded[c].err = ErrTransport
        /\ Len(doLog[c]) = 1
        /\ ret[c].err = ErrTransport

(* the operations table: method, path segments, payload *)
TableMethod(op) ==
    IF op \in {"ScheduleAllStorageMoves", "ScheduleStorageMoveForProject"}
    THEN "POST" ELSE "GET"

TablePathOK(a, path) ==
    LET seg == SplitPath(path)
    IN  CASE a.op \in {"RetrieveAllStorageMoves", "ScheduleAllStorageMoves"} ->
               seg = <<StrProjectRepositoryStorageMoves>>
          [] a.op \in {"RetrieveAllStorageMovesForProject",
                       "ScheduleStorageMoveForProject"} ->
               /\ Len(seg) = 3
               /\ seg[1] = StrProjects
               /\ IsIdSegment(seg[2], a.project)
               /\ seg[3] = StrRepositoryStorageMoves
          [] a.op = "GetStorageMove" ->
               /\ Len(seg) = 2
               /\ seg[1] = StrProjectRepositoryStorageMoves
               /\ IsIdSegment(seg[2], a.id)
          [] a.op = "GetStorageMoveForProject" ->
               /\ Len(seg) = 4
               /\ seg[1] = StrProjects
               /\ IsIdSegment(seg[2], a.project)
               /\ seg[3] = StrRepositoryStorageMoves
               /\ IsIdSegment(seg[4], a.id)

TablePayloadOK(a, payload) ==
    IF a.op \in {"RetrieveAllStorageMoves", "RetrieveAllStorageMovesForProject"}
    THEN payload.kind = "opts" /\ payload = a.opts
    ELSE payload = NoPayload

(* C4: every operation hands the builder the method, path and payload of the
   operations table, ids in decimal, the project id before the move id; a
   request built without payload has no query parameters. *)
C4_RequestMatchesTable ==
    \A c \in Calls : Started(c) =>
        /\ nrCall[c].called
        /\ nrCall[c].method = TableMethod(args[c].op)
        /\ TablePathOK(args[c], nrCall[c].path)
        /\ TablePayloadOK(args[c], nrCall[c].payload)
        /\ (req[c].built /\ args[c].op \notin
              {"RetrieveAllStorageMoves", "RetrieveAllStorageMovesForProject"})
              => req[c].query = {}

(* a negative two-digit project id and a different two-digit move id *)
C4_Witness ==
    \E c \in Calls :
        /\ Returned(c) /\ Dispatched(c)
        /\ args[c].op = "GetStorageMoveForProject"
        /\ args[c].project < 0 - 9
        /\ args[c].id > 9
        /\ args[c].id # 0 - args[c].project
        /\ Len(nrCall[c].path) = Len(StrProjects) + Len(StrRepositoryStorageMoves) + 8

(* C5: the returned response is the one Do received, also when Do ends in an
   API-status error; it is nil after a transport failure and after a failure
   before dispatch. *)
C5_ResponsePresence ==
    \A c \in Calls : Returned(c) =>
        /\ (Dispatched(c) /\ decoded[c].resp.present) =>
              ret[c].resp.present /\ ret[c].resp = decoded[c].resp
        /\ (Dispatched(c) /\ decoded[c].err = ErrTransport) => ret[c].resp = NilResp
        /\ ~Dispatched(c) => ret[c].resp = NilResp

(* GetStorageMove answered with 404 *)
C5_Witness ==
    \E c \in Calls :
        /\ Returned(c)
        /\ args[c].op = "GetStorageMove"
        /\ ret[c].result = NilValue
        /\ ret[c].resp = Response(404)
        /\ ret[c].err = ErrAPIStatus(404)

C7_SuccessReturnsDecoded ==
    \A c \in Calls :
        (Returned(c) /\ Dispatched(c) /\ decoded[c].err = NoErr) =>
            /\ ret[c].err = NoErr
            /\ ret[c].resp = decoded[c].resp
            /\ args[c].op \in SliceOps => ret[c].result = decoded[c].val
            /\ args[c].op \in GetOps =>
                  /\ ret[c].result.kind = "ptr"
                  /\ heap[ret[c].result.ref] = decoded[c].val

(* ScheduleAllStorageMoves decodes two moves, 2 before 1 *)
C7_Witness ==
    \E c \in Calls :
        /\ Returned(c)
        /\ args[c].op = "ScheduleAllStorageMoves"
        /\ ret[c].err = NoErr
        /\ Len(ret[c].result.items) = 2
        /\ ret[c].result.items[1].ID = 2
        /\ ret[c].result.items[2].ID = 1
        /\ ret[c].result.items[2].State = "scheduled"

(* what a call returns from its own inputs and its own round trip alone *)
AloneReturn(c) ==
    IF nrCall[c].err # NoErr
    THEN [result |-> NilValue, resp |-> NilResp, err |-> nrCall[c].err]
    ELSE IF decoded[c].err # NoErr
    THEN [result |-> NilValue, resp |-> decoded[c].resp, err |-> decoded[c].err]
    ELSE [result |-> IF args[c].op \in GetOps THEN PtrValue(doLog[c][1].target)
                     ELSE decoded[c].val,
          resp |-> decoded[c].resp, err |-> NoErr]

AloneTarget(c) ==
    IF decoded[c].write THEN decoded[c].val
    ELSE IF args[c].op \in GetOps THEN StructValue(ZeroMove) ELSE NilValue

(* C8: calls running concurrently share no mutable state: no two calls use
   the same decode target, a call's target holds what its own Do left there,
   its return is that of the call run alone, and the client configuration is
   never written. *)
C8_CallsIsolated ==
    /\ client = ClientConfig
    /\ \A c \in Calls :
          /\ Dispatched(c) =>
                \A d \in Calls \ {c} :
                    Dispatched(d) => doLog[d][1].target # doLog[c][1].target
          /\ (Dispatched(c) /\ pc[c] \in {"decoded", "returned"}) =>
                heap[doLog[c][1].target] = AloneTarget(c)
          /\ Returned(c) => ret[c] = AloneReturn(c)

(* two round trips have both completed before either call returned *)
C8_Witness ==
    /\ pc[1] = "decoded" /\ pc[2] = "decoded"
    /\ args[1].op = "GetStorageMove" /\ args[2].op = "RetrieveAllStorageMoves"
    /\ decoded[1].err = NoErr /\ decoded[2].err = NoErr
    /\ heap[1].kind = "struct" /\ heap[2].kind = "slice"

(* C9: the modifier list reaches the builder complete and in the caller's
   order; a request is dispatched only with all of them applied in that
   order, and never after one of them failed. *)
C9_ModifiersInOrder ==
    \A c \in Calls : Started(c) =>
        /\ nrCall[c].options = args[c].options
        /\ \A i \in 1..Len(doLog[c]) :
              /\ doLog[c][i].req.built
              /\ doLog[c][i].req.applied = args[c].options
        /\ (\E i \in 1..Len(args[c].options) : args[c].options[i] = "WithInvalidHeader")
              => doLog[c] = <<>> /\ ~req[c].built

(* two different modifiers reached the wire in the caller's order *)
C9_Witness ==
    \E c \in Calls :
        /\ Dispatched(c)
        /\ args[c].options = <<"WithHeader", "WithContext">>
        /\ doLog[c][1].req.applied = <<"WithHeader", "WithContext">>

(* C10: GetStorageMove and GetStorageMoveForProject return a non-nil pointer
   exactly when they return a nil error. *)
C10_GetPointerIffNoError ==
    \A c \in Calls : (Returned(c) /\ args[c].op \in GetOps) =>
        (ret[c].result # NilValue <=> ret[c].err = NoErr)

(* a Get returned a pointer and no error, while a Retrieve or Schedule
   returned no error and a nil sequence *)
C10_Witness ==
    \E c, d \in Calls :
        /\ Returned(c) /\ args[c].op \in GetOps
        /\ ret[c].err = NoErr /\ ret[c].result.kind = "ptr"
        /\ Returned(d) /\ args[d].op \in SliceOps
        /\ ret[d].err = NoErr /\ ret[d].result = NilValue

====
